---------------------------- MODULE Spec2Model ----------------------------
(***************************************************************************)
(* Model of the log pipeline of QA-Agent-log:                              *)
(*   utils/preprocessor.py   LogPreprocessor (parse, chunk, patterns)      *)
(*   agents/log_analyzer.py  LogAnalyzerAgent (search, LLM analysis)       *)
(* Text is modelled as TLA+ strings, character by character.               *)
(***************************************************************************)
EXTENDS Integers, Sequences, FiniteSets, TLC

(***************************************************************************)
(* Bounds of the model.                                                    *)
(***************************************************************************)
MaxLines == 3

MaxTokens == 12

\* physical lines of a file given to the agent's process_log_file
MaxFileLines == 2

(***************************************************************************)
(* Python str helpers.                                                     *)
(***************************************************************************)
Char(s, i) == SubSeq(s, i, i)

\* str.strip() / regex \s: the ASCII whitespace characters
Whitespace == {" ", "\t", "\n", "\r", "\f"}

Digits == {"0", "1", "2", "3", "4", "5", "6", "7", "8", "9"}

LowerAlpha == "abcdefghijklmnopqrstuvwxyz"

UpperAlpha == "ABCDEFGHIJKLMNOPQRSTUVWXYZ"

IsLower(c) == \E i \in 1..26 : Char(LowerAlpha, i) = c

IsUpper(c) == \E i \in 1..26 : Char(UpperAlpha, i) = c

\* regex \w (ASCII)
IsWordChar(c) == IsLower(c) \/ IsUpper(c) \/ c \in Digits \/ c = "_"

UpperChar(c) ==
    IF IsLower(c)
    THEN Char(UpperAlpha, CHOOSE i \in 1..26 : Char(LowerAlpha, i) = c)
    ELSE c

LowerChar(c) ==
    IF IsUpper(c)
    THEN Char(LowerAlpha, CHOOSE i \in 1..26 : Char(UpperAlpha, i) = c)
    ELSE c

\* the text halves are converted separately to keep the evaluation shallow
RECURSIVE Upper(_)
Upper(s) ==
    IF Len(s) <= 1 THEN UpperChar(s)
    ELSE LET h == Len(s) \div 2 IN
         Upper(SubSeq(s, 1, h)) \o Upper(SubSeq(s, h + 1, Len(s)))

RECURSIVE Lower(_)
Lower(s) ==
    IF Len(s) <= 1 THEN LowerChar(s)
    ELSE LET h == Len(s) \div 2 IN
         Lower(SubSeq(s, 1, h)) \o Lower(SubSeq(s, h + 1, Len(s)))

Min(S) == CHOOSE x \in S : \A y \in S : x <= y

Max(S) == CHOOSE x \in S : \A y \in S : x >= y

\* positions of s, from i on, whose character is not in the set cs
NotIn(s, i, cs) == {k \in i..Len(s) : Char(s, k) \notin cs}

\* first position >= i of s whose character is not in cs (Len(s)+1 if none)
FirstNotIn(s, i, cs) ==
    IF i > Len(s) THEN Len(s) + 1
    ELSE CHOOSE k \in i..(Len(s) + 1) :
            /\ k = Len(s) + 1 \/ Char(s, k) \notin cs
            /\ \A j \in i..(k - 1) : Char(s, j) \in cs

\* first position >= i of s whose character is in cs (Len(s)+1 if none)
FirstIn(s, i, cs) ==
    IF i > Len(s) THEN Len(s) + 1
    ELSE CHOOSE k \in i..(Len(s) + 1) :
            /\ k = Len(s) + 1 \/ Char(s, k) \in cs
            /\ \A j \in i..(k - 1) : Char(s, j) \notin cs

LStrip(s) == SubSeq(s, FirstNotIn(s, 1, Whitespace), Len(s))

RStrip(s) == SubSeq(s, 1, Max(NotIn(s, 1, Whitespace) \cup {0}))

Strip(s) == RStrip(LStrip(s))

\* index of the first "\n" of s from i on, 0 when there is none
FindNewline(s, i) ==
    LET k == FirstIn(s, i, {"\n"}) IN
    IF k > Len(s) THEN 0 ELSE k

\* s.split('\n'): "" gives <<"">>
RECURSIVE SplitLines(_)
SplitLines(s) ==
    LET n == FindNewline(s, 1) IN
    IF n = 0 THEN <<s>>
    ELSE <<SubSeq(s, 1, n - 1)>> \o SplitLines(SubSeq(s, n + 1, Len(s)))

\* "\n".join(seq)
RECURSIVE JoinLines(_)
JoinLines(seq) ==
    IF seq = <<>> THEN ""
    ELSE IF Len(seq) = 1 THEN seq[1]
    ELSE seq[1] \o "\n" \o JoinLines(Tail(seq))

\* needle in hay
Contains(hay, needle) ==
    \E i \in 1..(Len(hay) - Len(needle) + 1) :
        SubSeq(hay, i, i + Len(needle) - 1) = needle

\* log_pattern, the header grammar of a log line:
\*   group 1  \d{4}-\d{2}-\d{2} \d{2}:\d{2}:\d{2}
\*   \s+  group 2  \w+   \s+  \[  group 3  [^\]]+  \]  \s+  group 4  the rest
TsShape == "dddd-dd-dd dd:dd:dd"

TsLen == Len(TsShape)

MatchesTsShape(s) ==
    /\ Len(s) >= TsLen
    /\ \A i \in 1..TsLen :
          IF Char(TsShape, i) = "d" THEN Char(s, i) \in Digits
          ELSE Char(s, i) = Char(TsShape, i)

\* first index >= i of s whose character is not whitespace (Len(s)+1 if none)
SkipSpace(s, i) == FirstNotIn(s, i, Whitespace)

\* first index >= i of s whose character is not a word character
SkipWord(s, i) ==
    IF i > Len(s) THEN Len(s) + 1
    ELSE CHOOSE k \in i..(Len(s) + 1) :
            /\ k = Len(s) + 1 \/ ~IsWordChar(Char(s, k))
            /\ \A j \in i..(k - 1) : IsWordChar(Char(s, j))

\* first index >= i of s whose character is "]" (Len(s)+1 if none)
FindClose(s, i) == FirstIn(s, i, {"]"})

NoMatch == [matched |-> FALSE, timestamp_str |-> "", level |-> "",
            component |-> "", message |-> ""]

\* log_pattern.match(s): the four groups, or NoMatch
LogPatternMatch(s) ==
    IF ~MatchesTsShape(s) THEN NoMatch
    ELSE
    LET a == TsLen + 1              \* start of the first \s+
        b == SkipSpace(s, a)        \* start of group 2
        c == SkipWord(s, b)         \* start of the second \s+
        d == SkipSpace(s, c)        \* position of \[
        e == FindClose(s, d + 1)    \* position of \]
        f == SkipSpace(s, e + 1)    \* start of group 4
    IN  IF /\ b > a
           /\ c > b
           /\ d > c
           /\ d <= Len(s) /\ Char(s, d) = "["
           /\ e > d + 1
           /\ e <= Len(s)
           /\ f > e + 1
        THEN [matched |-> TRUE,
              timestamp_str |-> SubSeq(s, 1, TsLen),
              level |-> SubSeq(s, b, c - 1),
              component |-> SubSeq(s, d + 1, e - 1),
              message |-> SubSeq(s, f, Len(s))]
        ELSE NoMatch

(***************************************************************************)
(* datetime.strptime(timestamp_str, '%Y-%m-%d %H:%M:%S')                    *)
(***************************************************************************)
DigitVal(c) == CHOOSE i \in 0..9 : Char("0123456789", i + 1) = c

RECURSIVE ToInt(_)
ToInt(s) ==
    IF s = "" THEN 0
    ELSE 10 * ToInt(SubSeq(s, 1, Len(s) - 1)) + DigitVal(Char(s, Len(s)))

IsLeap(y) == (y % 4 = 0 /\ y % 100 # 0) \/ y % 400 = 0

DaysInMonth(y, m) ==
    IF m = 2 THEN (IF IsLeap(y) THEN 29 ELSE 28)
    ELSE IF m \in {4, 6, 9, 11} THEN 30
    ELSE 31

\* the value None of a timestamp
NoTimestamp == <<>>

\* <<year, month, day, hour, minute, second>>, or NoTimestamp on ValueError
Strptime(ts) ==
    LET y  == ToInt(SubSeq(ts, 1, 4))
        mo == ToInt(SubSeq(ts, 6, 7))
        dd == ToInt(SubSeq(ts, 9, 10))
        h  == ToInt(SubSeq(ts, 12, 13))
        mi == ToInt(SubSeq(ts, 15, 16))
        sc == ToInt(SubSeq(ts, 18, 19))
    IN  IF /\ y >= 1
           /\ mo \in 1..12
           /\ dd >= 1 /\ dd <= DaysInMonth(y, mo)
           /\ h \in 0..23
           /\ mi \in 0..59
           /\ sc \in 0..59
        THEN <<y, mo, dd, h, mi, sc>>
        ELSE NoTimestamp

(***************************************************************************)
(* LogPreprocessor.parse_log_entries                                       *)
(***************************************************************************)
ErrorLevels == {"ERROR", "CRITICAL", "FATAL"}

NewEntry_RawLine(line_num, line) ==
    LET m == LogPatternMatch(Strip(line)) IN
    [line_number   |-> line_num,
     timestamp     |-> Strptime(m.timestamp_str),
     timestamp_str |-> m.timestamp_str,
     level         |-> Upper(m.level),
     component     |-> m.component,
     message       |-> m.message,
     full_line     |-> line,
     is_error      |-> Upper(m.level) \in ErrorLevels]

NewEntry_CaseSensitive(line_num, line) ==
    LET m == LogPatternMatch(Strip(line)) IN
    [line_number   |-> line_num,
     timestamp     |-> Strptime(m.timestamp_str),
     timestamp_str |-> m.timestamp_str,
     level         |-> Upper(m.level),
     component     |-> m.component,
     message       |-> m.message,
     full_line     |-> Strip(line),
     is_error      |-> m.level \in ErrorLevels]

\* the entry dict built for a header line
NewEntry(line_num, line) ==
    LET m == LogPatternMatch(Strip(line)) IN
    [line_number   |-> line_num,
     timestamp     |-> Strptime(m.timestamp_str),
     timestamp_str |-> m.timestamp_str,
     level         |-> Upper(m.level),
     component     |-> m.component,
     message       |-> m.message,
     full_line     |-> Strip(line),
     is_error      |-> Upper(m.level) \in ErrorLevels]

\* entries[-1]['message'] += f" {line.strip()}" and the same for full_line
AppendContinuation_NoSpace(es, line) ==
    [es EXCEPT ![Len(es)] =
        [@ EXCEPT !.message   = @ \o Strip(line),
                  !.full_line = @ \o " " \o Strip(line)]]

\* the continuation appended to message only
AppendContinuation_MessageOnly(es, line) ==
    [es EXCEPT ![Len(es)] =
        [@ EXCEPT !.message = @ \o " " \o Strip(line)]]

AppendContinuation(es, line) ==
    [es EXCEPT ![Len(es)] =
        [@ EXCEPT !.message   = @ \o " " \o Strip(line),
                  !.full_line = @ \o " " \o Strip(line)]]

\* lines = log_content.strip().split('\n')
ContentLines(log_content) == SplitLines(Strip(log_content))

IsBlank(line) == Strip(line) = ""

IsHeader(line) == LogPatternMatch(Strip(line)).matched

ParseStep_OrphanEntry(es, line_num, line) ==
    IF IsBlank(line) THEN es
    ELSE IF IsHeader(line) THEN Append(es, NewEntry(line_num, line))
    ELSE IF es # <<>> THEN AppendContinuation(es, line)
    ELSE Append(es, [line_number   |-> line_num,
                     timestamp     |-> NoTimestamp,
                     timestamp_str |-> "",
                     level         |-> "",
                     component     |-> "",
                     message       |-> Strip(line),
                     full_line     |-> Strip(line),
                     is_error      |-> FALSE])

\* the loop iteration without the blank-line test: a blank line after an
\* entry is appended to it like a continuation line
ParseStep_BlankContinues(es, line_num, line) ==
    IF IsBlank(line) THEN (IF es # <<>> THEN AppendContinuation(es, line) ELSE es)
    ELSE IF IsHeader(line) THEN Append(es, NewEntry(line_num, line))
    ELSE IF es # <<>> THEN AppendContinuation(es, line)
    ELSE es

\* the loop iteration with the ValueError of strptime left to skip the line:
\* a header whose date-time is not a calendar date-time creates no entry
ParseStep_SkipBadDate(es, line_num, line) ==
    IF IsBlank(line) THEN es
    ELSE IF IsHeader(line)
         THEN (IF NewEntry(line_num, line).timestamp = NoTimestamp THEN es
               ELSE Append(es, NewEntry(line_num, line)))
    ELSE IF es # <<>> THEN AppendContinuation(es, line)
    ELSE es

\* one iteration of the for loop over enumerate(lines, 1)
ParseStep(es, line_num, line) ==
    IF IsBlank(line) THEN es
    ELSE IF IsHeader(line) THEN Append(es, NewEntry(line_num, line))
    ELSE IF es # <<>> THEN AppendContinuation(es, line)
    ELSE es

RECURSIVE ParseFrom(_, _, _)
ParseFrom(es, lines, k) ==
    IF k > Len(lines) THEN es
    ELSE ParseFrom(ParseStep(es, k, lines[k]), lines, k + 1)

\* parse_log_entries(log_content), the whole call
ParseLogEntries(log_content) == ParseFrom(<<>>, ContentLines(log_content), 1)

(***************************************************************************)
(* LogPreprocessor.filter_error_entries                                    *)
(***************************************************************************)
FilterErrorEntries(es) == SelectSeq(es, LAMBDA e : e.is_error)

(***************************************************************************)
(* LogPreprocessor.create_chunks                                           *)
(***************************************************************************)
\* Stand-in for len(self.encoding.encode(text)) of the external tokenizer: a
\* deterministic count, here the number of whitespace-separated words.
WordStarts(s) ==
    {i \in 1..Len(s) :
        /\ Char(s, i) \notin Whitespace
        /\ (i = 1 \/ Char(s, i - 1) \in Whitespace)}

EncodeLen(text) == Cardinality(WordStarts(text))

\* entry_text and entry_tokens of one entry
EntryText(e) ==
    e.timestamp_str \o " " \o e.level \o " [" \o e.component \o "] " \o e.message

EntryTokens(e) == EncodeLen(EntryText(e))

MakeChunk_IdOfSize(chs, cur, cur_tokens) ==
    [chunk_id    |-> Len(cur) - 1,
     text        |-> JoinLines([i \in 1..Len(cur) |-> cur[i].full_line]),
     entries     |-> cur,
     token_count |-> cur_tokens,
     error_count |-> Cardinality({i \in 1..Len(cur) : cur[i].is_error}),
     components  |-> {cur[i].component : i \in 1..Len(cur)},
     levels      |-> {cur[i].level : i \in 1..Len(cur)}]

\* the chunk dict with error_count taken as the size of the group
MakeChunk_CountAll(chs, cur, cur_tokens) ==
    [chunk_id    |-> Len(chs),
     text        |-> JoinLines([i \in 1..Len(cur) |-> cur[i].full_line]),
     entries     |-> cur,
     token_count |-> cur_tokens,
     error_count |-> Len(cur),
     components  |-> {cur[i].component : i \in 1..Len(cur)},
     levels      |-> {cur[i].level : i \in 1..Len(cur)}]

\* the chunk dict built from the current group
MakeChunk(chs, cur, cur_tokens) ==
    [chunk_id    |-> Len(chs),
     text        |-> JoinLines([i \in 1..Len(cur) |-> cur[i].full_line]),
     entries     |-> cur,
     token_count |-> cur_tokens,
     error_count |-> Cardinality({i \in 1..Len(cur) : cur[i].is_error}),
     components  |-> {cur[i].component : i \in 1..Len(cur)},
     levels      |-> {cur[i].level : i \in 1..Len(cur)}]

\* the loop state of create_chunks
ChunkState(chs, cur, cur_tokens) ==
    [chunks |-> chs, current_chunk |-> cur, current_tokens |-> cur_tokens]

\* if current_tokens + entry_tokens > max_tokens and current_chunk
MustClose(st, entry, max) ==
    st.current_tokens + EntryTokens(entry) > max /\ st.current_chunk # <<>>

ChunkStep_DropOversized(st, entry, max) ==
    LET closed == IF MustClose(st, entry, max)
                  THEN ChunkState(Append(st.chunks,
                           MakeChunk(st.chunks, st.current_chunk, st.current_tokens)),
                           <<>>, 0)
                  ELSE st
    IN  IF EntryTokens(entry) > max THEN closed
        ELSE ChunkState(closed.chunks, Append(closed.current_chunk, entry),
                        closed.current_tokens + EntryTokens(entry))

ChunkStep_LateCheck(st, entry, max) ==
    LET closed == IF st.current_tokens > max /\ st.current_chunk # <<>>
                  THEN ChunkState(Append(st.chunks,
                           MakeChunk(st.chunks, st.current_chunk, st.current_tokens)),
                           <<>>, 0)
                  ELSE st
    IN  ChunkState(closed.chunks, Append(closed.current_chunk, entry),
                   closed.current_tokens + EntryTokens(entry))

ChunkStep_NoReset(st, entry, max) ==
    LET closed == IF MustClose(st, entry, max)
                  THEN ChunkState(Append(st.chunks,
                           MakeChunk(st.chunks, st.current_chunk, st.current_tokens)),
                           <<>>, st.current_tokens)
                  ELSE st
    IN  ChunkState(closed.chunks, Append(closed.current_chunk, entry),
                   closed.current_tokens + EntryTokens(entry))

\* the loop iteration with the close test relaxed to >= : a group is closed
\* before an entry that would fill it exactly
ChunkStep_CloseAtEqual(st, entry, max) ==
    LET closed == IF st.current_tokens + EntryTokens(entry) >= max
                     /\ st.current_chunk # <<>>
                  THEN ChunkState(Append(st.chunks,
                           MakeChunk(st.chunks, st.current_chunk, st.current_tokens)),
                           <<>>, 0)
                  ELSE st
    IN  ChunkState(closed.chunks, Append(closed.current_chunk, entry),
                   closed.current_tokens + EntryTokens(entry))

\* one iteration of the for loop over entries
ChunkStep(st, entry, max) ==
    LET closed == IF MustClose(st, entry, max)
                  THEN ChunkState(Append(st.chunks,
                           MakeChunk(st.chunks, st.current_chunk, st.current_tokens)),
                           <<>>, 0)
                  ELSE st
    IN  ChunkState(closed.chunks, Append(closed.current_chunk, entry),
                   closed.current_tokens + EntryTokens(entry))

\* after the loop: if current_chunk: chunks.append(chunk)
ChunkFinish(st) ==
    IF st.current_chunk # <<>>
    THEN Append(st.chunks, MakeChunk(st.chunks, st.current_chunk, st.current_tokens))
    ELSE st.chunks

RECURSIVE ChunkFrom(_, _, _, _)
ChunkFrom(st, es, k, max) ==
    IF k > Len(es) THEN ChunkFinish(st)
    ELSE ChunkFrom(ChunkStep(st, es[k], max), es, k + 1, max)

\* create_chunks(entries, max_tokens), the whole call
CreateChunks(es, max) == ChunkFrom(ChunkState(<<>>, <<>>, 0), es, 1, max)

(***************************************************************************)
(* LogPreprocessor.extract_error_patterns                                  *)
(***************************************************************************)
\* a Python dict is a function; {} is the function of empty domain
EmptyDict == <<>>

DictGet(dct, k, default) == IF k \in DOMAIN dct THEN dct[k] ELSE default

DictSet(dct, k, v) ==
    [x \in DOMAIN dct \cup {k} |-> IF x = k THEN v ELSE dct[x]]

\* the closed vocabulary, in the order of the list
Keywords ==
    <<"timeout", "connection", "failed", "error", "exception",
      "denied", "invalid", "not found", "unauthorized">>

\* component_counts[component] = component_counts.get(component, 0) + 1
CountComponent(counts, entry) ==
    DictSet(counts, entry.component, DictGet(counts, entry.component, 0) + 1)

RECURSIVE KeywordPass_FirstOnly(_, _, _)
KeywordPass_FirstOnly(kws, message, k) ==
    IF k > Len(Keywords) THEN kws
    ELSE IF Contains(message, Keywords[k])
         THEN DictSet(kws, Keywords[k], DictGet(kws, Keywords[k], 0) + 1)
         ELSE KeywordPass_FirstOnly(kws, message, k + 1)

\* for keyword in keywords[k:]: if keyword in message: count it
RECURSIVE KeywordPass(_, _, _)
KeywordPass(kws, message, k) ==
    IF k > Len(Keywords) THEN kws
    ELSE KeywordPass(
            IF Contains(message, Keywords[k])
            THEN DictSet(kws, Keywords[k], DictGet(kws, Keywords[k], 0) + 1)
            ELSE kws,
            message, k + 1)

\* the body of the keyword loop for one error entry
CountKeywords(kws, entry) == KeywordPass(kws, Lower(entry.message), 1)

\* datetime ordering: year, then month, day, hour, minute, second
TsLeq(t, u) ==
    \/ t = u
    \/ \E k \in 1..6 : t[k] < u[k] /\ \A j \in 1..(k - 1) : t[j] = u[j]

\* the timestamps min() and max() range over: if e['timestamp']
PresentTimestamps(es) ==
    {es[i].timestamp : i \in {j \in 1..Len(es) : es[j].timestamp # NoTimestamp}}

MinTs(S) == CHOOSE t \in S : \A u \in S : TsLeq(t, u)

MaxTs(S) == CHOOSE t \in S : \A u \in S : TsLeq(u, t)

\* 'time_range': {...} if error_entries else None; None is <<>> and a value
\* is a one-element sequence
NoTimeRange == <<>>

\* min() of an empty sequence raises ValueError
TimeRangeRaises(errs) == errs # <<>> /\ PresentTimestamps(errs) = {}

TimeRange(errs) ==
    IF errs = <<>> THEN NoTimeRange
    ELSE <<[start |-> MinTs(PresentTimestamps(errs)),
            end   |-> MaxTs(PresentTimestamps(errs))]>>

\* the patterns dict
MakePatterns(errs, counts, kws) ==
    [total_errors           |-> Len(errs),
     component_distribution |-> counts,
     error_keywords         |-> kws,
     time_range             |-> TimeRange(errs)]

NoPatterns == <<>>

RECURSIVE CountComponents(_, _)
\* the component loop over error_entries
CountComponents(counts, errs) ==
    IF errs = <<>> THEN counts
    ELSE CountComponents(CountComponent(counts, Head(errs)), Tail(errs))

RECURSIVE CountAllKeywords(_, _)
\* the keyword loop over error_entries
CountAllKeywords(kws, errs) ==
    IF errs = <<>> THEN kws
    ELSE CountAllKeywords(CountKeywords(kws, Head(errs)), Tail(errs))

\* extract_error_patterns(entries) where it returns
ExtractErrorPatterns(es) ==
    LET errs == FilterErrorEntries(es) IN
    MakePatterns(errs, CountComponents(EmptyDict, errs), CountAllKeywords(EmptyDict, errs))

\* extract_error_patterns(entries) raises ValueError
ExtractErrorPatternsRaises(es) == TimeRangeRaises(FilterErrorEntries(es))

\* create_chunks(self, entries, max_tokens=500)
DefaultMaxTokens == 500

\* LogPreprocessor.process_log_file(file_path) on the content read, with
\* filter_errors_only at its default True
PreprocessEntries(content) == FilterErrorEntries(ParseLogEntries(content))

PreprocessChunks(content) == CreateChunks(PreprocessEntries(content), DefaultMaxTokens)

PreprocessPatterns(content) == ExtractErrorPatterns(PreprocessEntries(content))

PreprocessRaises(content) == ExtractErrorPatternsRaises(PreprocessEntries(content))

(***************************************************************************)
(* json.loads, for the JSON texts of the model: objects, arrays, strings   *)
(* without escapes, decimal numbers, true, false, null.  A value carries   *)
(* its Python type in t; a number is kept in hundredths (0.7 is 70), as an *)
(* int when the literal has no fraction and as a float when it has one.    *)
(* The texts of the source are written here without their accents.         *)
(***************************************************************************)
JNull == [t |-> "null", v |-> 0]

JBool(b) == [t |-> "bool", v |-> b]

JInt(n) == [t |-> "int", v |-> n]

JFloat(n) == [t |-> "float", v |-> n]

JStr(str) == [t |-> "str", v |-> str]

JArr(seq) == [t |-> "arr", v |-> seq]

JObj(dct) == [t |-> "obj", v |-> dct]

Quote == "\""

JsonWhitespace == {" ", "\t", "\n", "\r"}

\* the character of s at i, "" outside s
CharAt(s, i) == IF i \in 1..Len(s) THEN SubSeq(s, i, i) ELSE ""

StartsWithAt(s, i, lit) ==
    i + Len(lit) - 1 <= Len(s) /\ SubSeq(s, i, i + Len(lit) - 1) = lit

SkipJsonSpace(s, i) == FirstNotIn(s, i, JsonWhitespace)

JFail == [ok |-> FALSE, val |-> JNull, next |-> 0]

JOk(val, next) == [ok |-> TRUE, val |-> val, next |-> next]

\* a string literal starting at the quote at i
ParseJsonString(s, i) ==
    LET close == FirstIn(s, i + 1, {Quote})
        body  == SubSeq(s, i + 1, close - 1)
    IN  IF close > Len(s) \/ Contains(body, "\n") \/ Contains(body, "\\")
        THEN JFail
        ELSE JOk(JStr(body), close + 1)

AllDigits(str) == \A k \in 1..Len(str) : Char(str, k) \in Digits

\* a number literal starting at i: -? int (. digits)?
ParseJsonNumber(s, i) ==
    LET end  == FirstNotIn(s, i, Digits \cup {"-", "."})
        lit  == SubSeq(s, i, end - 1)
        neg  == CharAt(lit, 1) = "-"
        body == IF neg THEN SubSeq(lit, 2, Len(lit)) ELSE lit
        dots == {k \in 1..Len(body) : Char(body, k) = "."}
        dot  == IF dots = {} THEN Len(body) + 1 ELSE Min(dots)
        int  == SubSeq(body, 1, dot - 1)
        frac == SubSeq(body, dot + 1, Len(body))
        two  == SubSeq(frac \o "00", 1, 2)
        mag  == ToInt(int) * 100 + ToInt(two)
    IN  IF /\ int # "" /\ AllDigits(int)
           /\ (Len(int) = 1 \/ Char(int, 1) # "0")
           /\ (dots = {} \/ (frac # "" /\ AllDigits(frac)))
        THEN JOk([t |-> IF dots = {} THEN "int" ELSE "float",
                  v |-> IF neg THEN 0 - mag ELSE mag], end)
        ELSE JFail

RECURSIVE ParseJsonValue(_, _)
RECURSIVE ParseJsonMembers(_, _, _)
RECURSIVE ParseJsonElements(_, _, _)

\* the members of an object after "{" or ",": "key": value, then "," or "}"
ParseJsonMembers(s, i, acc) ==
    LET k == SkipJsonSpace(s, i) IN
    IF CharAt(s, k) # Quote THEN JFail
    ELSE
    LET key   == ParseJsonString(s, k)
        colon == SkipJsonSpace(s, key.next)
    IN  IF ~key.ok \/ CharAt(s, colon) # ":" THEN JFail
        ELSE
        LET val  == ParseJsonValue(s, colon + 1)
            sep  == SkipJsonSpace(s, val.next)
            acc2 == DictSet(acc, key.val.v, val.val)
        IN  IF ~val.ok THEN JFail
            ELSE IF CharAt(s, sep) = "," THEN ParseJsonMembers(s, sep + 1, acc2)
            ELSE IF CharAt(s, sep) = "}" THEN JOk(JObj(acc2), sep + 1)
            ELSE JFail

\* the elements of an array after "[" or ",": value, then "," or "]"
ParseJsonElements(s, i, acc) ==
    LET val == ParseJsonValue(s, i)
        sep == SkipJsonSpace(s, val.next)
    IN  IF ~val.ok THEN JFail
        ELSE IF CharAt(s, sep) = "," THEN ParseJsonElements(s, sep + 1, Append(acc, val.val))
        ELSE IF CharAt(s, sep) = "]" THEN JOk(JArr(Append(acc, val.val)), sep + 1)
        ELSE JFail

ParseJsonValue(s, i) ==
    LET j == SkipJsonSpace(s, i)
        c == CharAt(s, j)
    IN  IF c = "{" THEN
            (IF CharAt(s, SkipJsonSpace(s, j + 1)) = "}"
             THEN JOk(JObj(EmptyDict), SkipJsonSpace(s, j + 1) + 1)
             ELSE ParseJsonMembers(s, j + 1, EmptyDict))
        ELSE IF c = "[" THEN
            (IF CharAt(s, SkipJsonSpace(s, j + 1)) = "]"
             THEN JOk(JArr(<<>>), SkipJsonSpace(s, j + 1) + 1)
             ELSE ParseJsonElements(s, j + 1, <<>>))
        ELSE IF c = Quote THEN ParseJsonString(s, j)
        ELSE IF c \in Digits \cup {"-"} THEN ParseJsonNumber(s, j)
        ELSE IF StartsWithAt(s, j, "true") THEN JOk(JBool(TRUE), j + 4)
        ELSE IF StartsWithAt(s, j, "false") THEN JOk(JBool(FALSE), j + 5)
        ELSE IF StartsWithAt(s, j, "null") THEN JOk(JNull, j + 4)
        ELSE JFail

\* json.loads(text): ok is FALSE where Python raises JSONDecodeError
JsonLoads(text) ==
    LET r == ParseJsonValue(text, 1) IN
    IF r.ok /\ SkipJsonSpace(text, r.next) > Len(text)
    THEN [ok |-> TRUE, val |-> r.val]
    ELSE [ok |-> FALSE, val |-> JNull]

(***************************************************************************)
(* LogAnalyzerAgent.search_similar_logs                                    *)
(***************************************************************************)
\* 'high' if score < 0.3 else 'medium' if score < 0.6 else 'low'
Relevance(score) ==
    IF score < 30 THEN "high" ELSE IF score < 60 THEN "medium" ELSE "low"

\* the similar_logs list built from the store's (doc, score) pairs
SimilarLogs(hits) ==
    [i \in 1..Len(hits) |->
        [content          |-> hits[i].content,
         metadata         |-> hits[i].metadata,
         similarity_score |-> hits[i].score,
         relevance        |-> Relevance(hits[i].score)]]

(***************************************************************************)
(* LogAnalyzerAgent.analyze_error_with_llm                                 *)
(***************************************************************************)
\* the dict built in `except json.JSONDecodeError`
ParseFallback(content) ==
    [explanation      |-> JStr(content),
     possible_causes  |-> JArr(<<JStr("Analise detalhada disponivel no texto acima")>>),
     severity         |-> JStr("MEDIUM"),
     recommendations  |-> JArr(<<JStr("Revisar logs completos"),
                                 JStr("Verificar configuracoes do sistema")>>),
     confidence_score |-> JFloat(70)]

\* the dict returned by the outer except, err being str(e)
ErrorFallback(err) ==
    [explanation      |-> JStr("Erro na analise: " \o err),
     possible_causes  |-> JArr(<<JStr("Erro interno do sistema de analise")>>),
     severity         |-> JStr("MEDIUM"),
     recommendations  |-> JArr(<<JStr("Verificar configuracao do agente")>>),
     confidence_score |-> JFloat(10)]

\* an outcome of self.llm(messages): it raises e, content being str(e), or
\* it returns a response with that content
LlmRaises(err) == [raised |-> TRUE, content |-> err]

LlmReturns(text) == [raised |-> FALSE, content |-> text]

\* type(x).__name__ of a parsed value
PyTypeName(val) ==
    CASE val.t = "arr"  -> "list"
      [] val.t = "obj"  -> "dict"
      [] val.t = "null" -> "NoneType"
      [] OTHER          -> val.t

\* str(e) of the AttributeError of analysis.get on a value that is no dict
NoGetAttribute(val) ==
    "'" \o PyTypeName(val) \o "' object has no attribute 'get'"

\* the dict analyze_error_with_llm returns for an outcome of the model call:
\* the call raising, and analysis.get on a parsed value that is no dict, end
\* in the outer except
AnalyzeErrorWithLlm(outcome) ==
    IF outcome.raised THEN ErrorFallback(outcome.content)
    ELSE LET parsed == JsonLoads(outcome.content) IN
         IF ~parsed.ok THEN ParseFallback(outcome.content)
         ELSE IF parsed.val.t # "obj" THEN ErrorFallback(NoGetAttribute(parsed.val))
         ELSE parsed.val.v

(***************************************************************************)
(* LogAnalyzerAgent.analyze_log_entry                                      *)
(***************************************************************************)
MakeResult_DefaultConfidence(error_message, similar, analysis) ==
    [error_message    |-> error_message,
     explanation      |-> DictGet(analysis, "explanation", JStr("Analise nao disponivel")),
     possible_causes  |-> DictGet(analysis, "possible_causes", JArr(<<>>)),
     similar_logs     |-> similar,
     severity         |-> DictGet(analysis, "severity", JStr("MEDIUM")),
     recommendations  |-> DictGet(analysis, "recommendations", JArr(<<>>)),
     timestamp        |-> "now",
     confidence_score |-> JFloat(50)]

\* AnalysisResult(...): every field is llm_analysis.get(key, default)
MakeResult(error_message, similar, analysis) ==
    [error_message    |-> error_message,
     explanation      |-> DictGet(analysis, "explanation", JStr("Analise nao disponivel")),
     possible_causes  |-> DictGet(analysis, "possible_causes", JArr(<<>>)),
     similar_logs     |-> similar,
     severity         |-> DictGet(analysis, "severity", JStr("MEDIUM")),
     recommendations  |-> DictGet(analysis, "recommendations", JArr(<<>>)),
     timestamp        |-> "now",
     confidence_score |-> DictGet(analysis, "confidence_score", JFloat(50))]

NoResult == <<>>

(***************************************************************************)
(* Inputs: raw log texts built from at most MaxLines physical lines.       *)
(***************************************************************************)
RECURSIVE SeqsUpTo(_, _)
SeqsUpTo(S, n) ==
    IF n = 0 THEN {<<>>}
    ELSE LET shorter == SeqsUpTo(S, n - 1) IN
         shorter \cup {Append(q, x) : q \in {r \in shorter : Len(r) = n - 1}, x \in S}

\* a header line "<ts> <LEVEL> [<comp>] <msg>" written from its parts
HeaderLine(p) == p.ts \o " " \o p.level \o " [" \o p.comp \o "] " \o p.msg

HeaderPartsPool ==
    {[ts |-> "2024-01-01 00:00:00", level |-> "ERROR", comp |-> "svc",
      msg |-> "boom"],
     [ts |-> "2024-01-01 00:00:05", level |-> "error", comp |-> "db",
      msg |-> "Connection timeout "],
     [ts |-> "2024-13-01 25:00:00", level |-> "WARN", comp |-> "api",
      msg |-> "slow"],
     [ts |-> "2024-01-02 10:30:00", level |-> "INFO", comp |-> "svc core",
      msg |-> " started"],
     [ts |-> "2024-01-02 10:30:09", level |-> "Fatal", comp |-> "io",
      msg |-> "disk full"]}

ParseLinePool ==
    {HeaderLine(p) : p \in HeaderPartsPool}
        \cup {"extra detail", "  at line 5 ", "", "  "}

ParseContents == {JoinLines(q) : q \in SeqsUpTo(ParseLinePool, MaxLines)}

ChunkLinePool ==
    {"2024-01-01 00:00:00 ERROR [svc] boom",
     "2024-01-01 00:00:05 CRITICAL [db] Connection timeout after 30s",
     "2024-01-01 00:00:07 INFO [svc] started ok",
     "2024-01-01 00:00:09 FATAL [db] disk full on volume data01 sector 7",
     "extra detail"}

ChunkContents == {JoinLines(q) : q \in SeqsUpTo(ChunkLinePool, MaxLines)}

\* the entry lists create_chunks is called with: parsed, then filtered or not
ChunkInputs ==
    {ParseLogEntries(c) : c \in ChunkContents}
        \cup {FilterErrorEntries(ParseLogEntries(c)) : c \in ChunkContents}

PatternLinePool ==
    {"2024-01-01 00:00:00 ERROR [auth] Connection timeout: unauthorized access denied",
     "2024-01-01 00:00:05 CRITICAL [db] Timeout after timeout",
     "2023-12-31 23:59:59 INFO [db] connection failed",
     "2024-13-01 25:00:00 FATAL [io] file not",
     "found"}

PatternContents == {JoinLines(q) : q \in SeqsUpTo(PatternLinePool, MaxLines)}

\* the entry lists extract_error_patterns is called with
PatternInputs ==
    {ParseLogEntries(c) : c \in PatternContents}
        \cup {FilterErrorEntries(ParseLogEntries(c)) : c \in PatternContents}

(***************************************************************************)
(* State.                                                                  *)
(***************************************************************************)
VARIABLES
    log_content,    \* parse_log_entries: the argument
    lines,          \* parse_log_entries: the list being enumerated
    line_num,       \* parse_log_entries: position of the next line (1-based)
    entries,        \* parse_log_entries: the entries list
    p_pc            \* parse_log_entries: "idle", "loop" or "done"

VARIABLES
    c_entries,      \* create_chunks: the entries argument
    max_tokens,     \* create_chunks: the max_tokens argument
    c_idx,          \* create_chunks: position of the next entry (1-based)
    chunks,         \* create_chunks: the chunks list
    current_chunk,  \* create_chunks: the current group
    current_tokens, \* create_chunks: its running token total
    c_pc            \* create_chunks: "idle", "loop" or "done"

VARIABLES
    x_entries,        \* extract_error_patterns: the entries argument
    error_entries,    \* extract_error_patterns: the filtered entries
    comp_idx,         \* position of the component loop (1-based)
    kw_idx,           \* position of the keyword loop (1-based)
    component_counts, \* extract_error_patterns: component -> count
    error_keywords,   \* extract_error_patterns: keyword -> count
    patterns,         \* extract_error_patterns: the returned dict
    x_pc              \* "idle", "start", "run", "done" or "raised"

VARIABLES
    a_entry,        \* analyze_log_entry: the log_entry argument
    error_message,  \* analyze_log_entry: log_entry['message']
    similar_logs,   \* analyze_log_entry: what search_similar_logs returned
    search_raised,  \* whether the store's similarity search raised
    response,       \* analyze_error_with_llm: the outcome of self.llm(messages)
    a_result,       \* analyze_log_entry: the AnalysisResult
    a_pc,           \* "idle", "start", "search", "llm", "done" or "raised"
    calls,          \* the calls made to the vector store and the model so far
    search_hits,    \* the answers the vector store can give in this run
    llm_texts       \* the texts the model can answer in this run

VARIABLES
    file,           \* the file at file_path: its state and its content
    g_chunks,       \* process_log_file: chunks
    g_patterns,     \* process_log_file: patterns
    added,          \* what add_logs_to_vectorstore returned
    store_raised,   \* whether add_texts or persist raised
    chunk_idx,      \* position of the loop over chunks (1-based)
    entry_idx,      \* position of the loop over chunk['entries'] (1-based)
    results,        \* process_log_file: results
    g_exception,    \* the exception process_log_file raised, "" if none
    g_pc            \* "idle", "start", "store", "loop", "analyze", "done", "raised"

parseVars == <<log_content, lines, line_num, entries, p_pc>>

patternVars == <<x_entries, error_entries, comp_idx, kw_idx, component_counts,
                 error_keywords, patterns, x_pc>>

chunkVars == <<c_entries, max_tokens, c_idx, chunks, current_chunk,
               current_tokens, c_pc>>

analyzeVars == <<a_entry, error_message, similar_logs, search_raised, response,
                 a_result, a_pc, calls, search_hits, llm_texts>>

agentVars == <<file, g_chunks, g_patterns, added, store_raised, chunk_idx, entry_idx, results,
               g_exception, g_pc>>

vars == <<parseVars, chunkVars, patternVars, analyzeVars, agentVars>>

NoResponse == <<>>

NoFile == <<>>

AnalyzeIdle ==
    /\ a_entry = <<>>
    /\ error_message = JNull
    /\ similar_logs = <<>>
    /\ search_raised = FALSE
    /\ response = NoResponse
    /\ a_result = NoResult
    /\ a_pc = "idle"
    /\ calls = <<>>
    /\ search_hits = {}
    /\ llm_texts = {}

AgentIdle ==
    /\ file = NoFile
    /\ g_chunks = <<>>
    /\ g_patterns = NoPatterns
    /\ added = 0
    /\ store_raised = FALSE
    /\ chunk_idx = 0
    /\ entry_idx = 0
    /\ results = <<>>
    /\ g_exception = ""
    /\ g_pc = "idle"

PatternIdle ==
    /\ x_entries = <<>>
    /\ error_entries = <<>>
    /\ comp_idx = 0
    /\ kw_idx = 0
    /\ component_counts = EmptyDict
    /\ error_keywords = EmptyDict
    /\ patterns = NoPatterns
    /\ x_pc = "idle"

ChunkIdle ==
    /\ c_entries = <<>>
    /\ max_tokens = 0
    /\ c_idx = 0
    /\ chunks = <<>>
    /\ current_chunk = <<>>
    /\ current_tokens = 0
    /\ c_pc = "idle"

ParseIdle ==
    /\ log_content = ""
    /\ lines = <<>>
    /\ line_num = 0
    /\ entries = <<>>
    /\ p_pc = "idle"

(***************************************************************************)
(* parse_log_entries, one loop iteration per step.                         *)
(***************************************************************************)
ParseInit ==
    /\ ChunkIdle
    /\ PatternIdle
    /\ AnalyzeIdle
    /\ AgentIdle
    /\ log_content \in ParseContents
    /\ lines = ContentLines(log_content)
    /\ line_num = 1
    /\ entries = <<>>
    /\ p_pc = "loop"

CurrentLine == lines[line_num]

ParseAdvance ==
    /\ line_num' = line_num + 1
    /\ UNCHANGED <<log_content, lines, p_pc>>
    /\ UNCHANGED <<chunkVars, patternVars, analyzeVars, agentVars>>

\* if not line.strip(): continue
ParseBlankLine ==
    /\ p_pc = "loop" /\ line_num <= Len(lines)
    /\ IsBlank(CurrentLine)
    /\ entries' = ParseStep(entries, line_num, CurrentLine)
    /\ ParseAdvance

\* if match: ... entries.append(entry)
ParseHeaderLine ==
    /\ p_pc = "loop" /\ line_num <= Len(lines)
    /\ ~IsBlank(CurrentLine) /\ IsHeader(CurrentLine)
    /\ entries' = ParseStep(entries, line_num, CurrentLine)
    /\ ParseAdvance

\* else: if entries: entries[-1][...] += ...
ParseContinuationLine ==
    /\ p_pc = "loop" /\ line_num <= Len(lines)
    /\ ~IsBlank(CurrentLine) /\ ~IsHeader(CurrentLine)
    /\ entries # <<>>
    /\ entries' = ParseStep(entries, line_num, CurrentLine)
    /\ ParseAdvance

\* else: with no entry yet the line is dropped
ParseOrphanLine ==
    /\ p_pc = "loop" /\ line_num <= Len(lines)
    /\ ~IsBlank(CurrentLine) /\ ~IsHeader(CurrentLine)
    /\ entries = <<>>
    /\ entries' = ParseStep(entries, line_num, CurrentLine)
    /\ ParseAdvance

\* return entries
ParseReturn ==
    /\ p_pc = "loop" /\ line_num > Len(lines)
    /\ p_pc' = "done"
    /\ UNCHANGED <<log_content, lines, line_num, entries>>
    /\ UNCHANGED <<chunkVars, patternVars, analyzeVars, agentVars>>

ParseNext ==
    \/ ParseBlankLine
    \/ ParseHeaderLine
    \/ ParseContinuationLine
    \/ ParseOrphanLine
    \/ ParseReturn

SpecParse == ParseInit /\ [][ParseNext]_vars

(***************************************************************************)
(* create_chunks, one loop iteration per step.                             *)
(***************************************************************************)
ChunkInit ==
    /\ ParseIdle
    /\ PatternIdle
    /\ AnalyzeIdle
    /\ AgentIdle
    /\ c_entries \in ChunkInputs
    /\ max_tokens \in 0..MaxTokens
    /\ c_idx = 1
    /\ chunks = <<>>
    /\ current_chunk = <<>>
    /\ current_tokens = 0
    /\ c_pc = "loop"

LoopState == ChunkState(chunks, current_chunk, current_tokens)

ChunkApply(st) ==
    /\ chunks' = st.chunks
    /\ current_chunk' = st.current_chunk
    /\ current_tokens' = st.current_tokens
    /\ c_idx' = c_idx + 1
    /\ UNCHANGED <<c_entries, max_tokens, c_pc>>
    /\ UNCHANGED <<parseVars, patternVars, analyzeVars, agentVars>>

\* an iteration that closes the current group before adding the entry
ChunkCloseAndAdd ==
    /\ c_pc = "loop" /\ c_idx <= Len(c_entries)
    /\ MustClose(LoopState, c_entries[c_idx], max_tokens)
    /\ ChunkApply(ChunkStep(LoopState, c_entries[c_idx], max_tokens))

\* an iteration that adds the entry to the current group
ChunkAdd ==
    /\ c_pc = "loop" /\ c_idx <= Len(c_entries)
    /\ ~MustClose(LoopState, c_entries[c_idx], max_tokens)
    /\ ChunkApply(ChunkStep(LoopState, c_entries[c_idx], max_tokens))

\* the final flush and return chunks
ChunkReturn ==
    /\ c_pc = "loop" /\ c_idx > Len(c_entries)
    /\ chunks' = ChunkFinish(LoopState)
    /\ c_pc' = "done"
    /\ UNCHANGED <<c_entries, max_tokens, c_idx, current_chunk, current_tokens>>
    /\ UNCHANGED <<parseVars, patternVars, analyzeVars, agentVars>>

ChunkNext ==
    \/ ChunkCloseAndAdd
    \/ ChunkAdd
    \/ ChunkReturn

SpecChunk == ChunkInit /\ [][ChunkNext]_vars

(***************************************************************************)
(* extract_error_patterns, one loop iteration per step.                    *)
(***************************************************************************)
PatternInit ==
    /\ ParseIdle
    /\ ChunkIdle
    /\ AnalyzeIdle
    /\ AgentIdle
    /\ x_entries \in PatternInputs
    /\ error_entries = <<>>
    /\ comp_idx = 0
    /\ kw_idx = 0
    /\ component_counts = EmptyDict
    /\ error_keywords = EmptyDict
    /\ patterns = NoPatterns
    /\ x_pc = "start"

\* error_entries = self.filter_error_entries(entries), and the empty dicts
PatternFilter ==
    /\ x_pc = "start"
    /\ error_entries' = FilterErrorEntries(x_entries)
    /\ comp_idx' = 1
    /\ kw_idx' = 1
    /\ x_pc' = "run"
    /\ UNCHANGED <<x_entries, component_counts, error_keywords, patterns>>
    /\ UNCHANGED <<parseVars, chunkVars, analyzeVars, agentVars>>

\* one iteration of the component loop
PatternCountComponent ==
    /\ x_pc = "run" /\ comp_idx <= Len(error_entries)
    /\ component_counts' = CountComponent(component_counts, error_entries[comp_idx])
    /\ comp_idx' = comp_idx + 1
    /\ UNCHANGED <<x_entries, error_entries, kw_idx, error_keywords, patterns, x_pc>>
    /\ UNCHANGED <<parseVars, chunkVars, analyzeVars, agentVars>>

\* one iteration of the keyword loop
PatternCountKeywords ==
    /\ x_pc = "run" /\ comp_idx > Len(error_entries)
    /\ kw_idx <= Len(error_entries)
    /\ error_keywords' = CountKeywords(error_keywords, error_entries[kw_idx])
    /\ kw_idx' = kw_idx + 1
    /\ UNCHANGED <<x_entries, error_entries, comp_idx, component_counts, patterns, x_pc>>
    /\ UNCHANGED <<parseVars, chunkVars, analyzeVars, agentVars>>

\* patterns = {...}; return patterns
PatternReturn ==
    /\ x_pc = "run" /\ comp_idx > Len(error_entries)
    /\ kw_idx > Len(error_entries)
    /\ ~TimeRangeRaises(error_entries)
    /\ patterns' = MakePatterns(error_entries, component_counts, error_keywords)
    /\ x_pc' = "done"
    /\ UNCHANGED <<x_entries, error_entries, comp_idx, kw_idx, component_counts,
                   error_keywords>>
    /\ UNCHANGED <<parseVars, chunkVars, analyzeVars, agentVars>>

\* patterns = {...}: min() raises ValueError, which nothing here catches
PatternRaise ==
    /\ x_pc = "run" /\ comp_idx > Len(error_entries)
    /\ kw_idx > Len(error_entries)
    /\ TimeRangeRaises(error_entries)
    /\ x_pc' = "raised"
    /\ UNCHANGED <<x_entries, error_entries, comp_idx, kw_idx, component_counts,
                   error_keywords, patterns>>
    /\ UNCHANGED <<parseVars, chunkVars, analyzeVars, agentVars>>

PatternNext ==
    \/ PatternFilter
    \/ PatternCountComponent
    \/ PatternCountKeywords
    \/ PatternReturn
    \/ PatternRaise

SpecPatterns == PatternInit /\ [][PatternNext]_vars

(***************************************************************************)
(* analyze_log_entry, one step per call it makes.  The vector store and    *)
(* the model are the environment: each call either raises or answers with  *)
(* one of the answers of the run.                                          *)
(***************************************************************************)
\* a TLA+ string cannot hold a backquote, so the fence of a fenced block is
\* written with "~", which json.loads rejects as it rejects a backquote
Fence == "~~~"

Fenced(text) == Fence \o "json\n" \o text \o "\n" \o Fence

CleanJson ==
    "{\"explanation\": \"disk is full\", \"possible_causes\": [\"log growth\", \"no rotation\"], "
        \o "\"severity\": \"HIGH\", \"recommendations\": [\"free space\"], "
        \o "\"confidence_score\": 0.85}"

\* the response texts of the model
LlmTextPool ==
    {"",
     "The error means the disk is full.",
     "{\"explanation\": \"disk is full\", \"possible_causes\": [\"log gro",
     Fenced("{not valid json"),
     Fenced(CleanJson),
     CleanJson,
     "  " \o CleanJson \o "\n",
     "[\"disk is full\"]",
     "\"disk is full\"",
     "null",
     "42",
     "{}",
     "{\"explanation\": \"disk\", \"possible_causes\": \"log growth\", "
        \o "\"severity\": \"LOW\", \"recommendations\": [\"free space\"], "
        \o "\"confidence_score\": 1}",
     "{\"explanation\": \"disk\", \"possible_causes\": [\"a\"], "
        \o "\"severity\": \"URGENT\", \"recommendations\": [\"b\"], "
        \o "\"confidence_score\": 0.5}",
     "{\"explanation\": \"disk\", \"possible_causes\": [\"a\"], "
        \o "\"severity\": \"critical\", \"recommendations\": [], "
        \o "\"confidence_score\": 7.5}",
     "{\"explanation\": \"disk\", \"possible_causes\": [], "
        \o "\"severity\": \"CRITICAL\", \"recommendations\": [\"b\"], "
        \o "\"confidence_score\": \"high\"}",
     "{\"explanation\": null, \"severity\": 3, \"confidence_score\": -0.2}"}

\* str(e) of the exceptions of the model call
LlmErrorPool == {"Connection error."}

Hit(content, score) ==
    [content |-> content, metadata |-> [chunk_id |-> 0], score |-> score]

\* the (doc, score) lists of the store, scores in hundredths
SearchHitPool ==
    {<<>>,
     <<Hit("2024-01-01 00:00:00 ERROR [svc] boom", 12)>>,
     <<Hit("2024-01-01 00:00:00 ERROR [svc] boom", 30),
       Hit("2024-01-01 00:00:05 FATAL [db] disk full", 60)>>}

AnalyzeContents ==
    {"2024-01-01 00:00:00 ERROR [svc] boom",
     "2024-01-01 00:00:05 FATAL [db] disk full\non volume data01",
     "2024-13-01 25:00:00 CRITICAL [db] Connection timeout"}

\* a dict without the key k
Without(dct, k) == [x \in DOMAIN dct \ {k} |-> dct[x]]

\* a log_entry whose 'message' is None
NoneMessageEntry == [message |-> JNull]

HasNoneMessage(entry) == DOMAIN entry = {"message"}

\* the entries of the parser
ParsedAnalyzeEntries == {ParseLogEntries(c)[1] : c \in AnalyzeContents}

\* an entry of the parser with its 'message' key removed
NoMessageEntries == {Without(e, "message") : e \in ParsedAnalyzeEntries}

AnalyzeStart(entry) ==
    /\ a_entry' = entry
    /\ error_message' = JNull
    /\ similar_logs' = <<>>
    /\ search_raised' = FALSE
    /\ response' = NoResponse
    /\ a_result' = NoResult
    /\ a_pc' = "start"

AnalyzeInit ==
    /\ ParseIdle
    /\ ChunkIdle
    /\ PatternIdle
    /\ AgentIdle
    /\ \/ a_entry \in ParsedAnalyzeEntries
       \/ a_entry \in NoMessageEntries
       \/ a_entry = NoneMessageEntry
    /\ error_message = JNull
    /\ similar_logs = <<>>
    /\ search_raised = FALSE
    /\ response = NoResponse
    /\ a_result = NoResult
    /\ a_pc = "start"
    /\ calls = <<>>
    /\ search_hits = SearchHitPool
    /\ llm_texts = LlmTextPool

\* error_message = log_entry['message']
AnalyzeReadMessage ==
    /\ a_pc = "start"
    /\ "message" \in DOMAIN a_entry
    /\ error_message' = (IF HasNoneMessage(a_entry) THEN JNull
                         ELSE JStr(a_entry.message))
    /\ a_pc' = "search"
    /\ UNCHANGED <<a_entry, similar_logs, search_raised, response, a_result, calls,
                   search_hits, llm_texts>>
    /\ UNCHANGED <<parseVars, chunkVars, patternVars, agentVars>>

\* error_message = log_entry['message'] raises KeyError, which nothing in
\* analyze_log_entry catches
AnalyzeKeyError ==
    /\ a_pc = "start"
    /\ "message" \notin DOMAIN a_entry
    /\ a_pc' = "raised"
    /\ UNCHANGED <<a_entry, error_message, similar_logs, search_raised, response,
                   a_result, calls, search_hits, llm_texts>>
    /\ UNCHANGED <<parseVars, chunkVars, patternVars, agentVars>>

\* search_similar_logs: the store answers
AnalyzeSearchReturns ==
    /\ a_pc = "search"
    /\ \E hits \in search_hits : similar_logs' = SimilarLogs(hits)
    /\ calls' = Append(calls, "similarity_search")
    /\ a_pc' = "llm"
    /\ UNCHANGED <<a_entry, error_message, search_raised, response, a_result,
                   search_hits, llm_texts>>
    /\ UNCHANGED <<parseVars, chunkVars, patternVars, agentVars>>

\* search_similar_logs retrying the store once after a failure before the
\* except returns []
AnalyzeSearchFails_Retry ==
    /\ a_pc = "search"
    /\ similar_logs' = <<>>
    /\ search_raised' = TRUE
    /\ calls' = calls \o <<"similarity_search", "similarity_search">>
    /\ a_pc' = "llm"
    /\ UNCHANGED <<a_entry, error_message, response, a_result, search_hits, llm_texts>>
    /\ UNCHANGED <<parseVars, chunkVars, patternVars, agentVars>>

\* search_similar_logs: the store raises, the except returns []
AnalyzeSearchFails ==
    /\ a_pc = "search"
    /\ similar_logs' = <<>>
    /\ search_raised' = TRUE
    /\ calls' = Append(calls, "similarity_search")
    /\ a_pc' = "llm"
    /\ UNCHANGED <<a_entry, error_message, response, a_result, search_hits, llm_texts>>
    /\ UNCHANGED <<parseVars, chunkVars, patternVars, agentVars>>

\* analyze_error_with_llm where the model answers with a text, then the
\* AnalysisResult
AnalyzeLlmReturns ==
    /\ a_pc = "llm"
    /\ \E text \in llm_texts : response' = LlmReturns(text)
    /\ a_result' = MakeResult(error_message, similar_logs, AnalyzeErrorWithLlm(response'))
    /\ calls' = Append(calls, "llm")
    /\ a_pc' = "done"
    /\ UNCHANGED <<a_entry, error_message, similar_logs, search_raised, search_hits,
                   llm_texts>>
    /\ UNCHANGED <<parseVars, chunkVars, patternVars, agentVars>>

\* analyze_error_with_llm where the model call raises, then the AnalysisResult
AnalyzeLlmRaises ==
    /\ a_pc = "llm"
    /\ \E err \in LlmErrorPool : response' = LlmRaises(err)
    /\ a_result' = MakeResult(error_message, similar_logs, AnalyzeErrorWithLlm(response'))
    /\ calls' = Append(calls, "llm")
    /\ a_pc' = "done"
    /\ UNCHANGED <<a_entry, error_message, similar_logs, search_raised, search_hits,
                   llm_texts>>
    /\ UNCHANGED <<parseVars, chunkVars, patternVars, agentVars>>

AnalyzeNext ==
    \/ AnalyzeReadMessage
    \/ AnalyzeKeyError
    \/ AnalyzeSearchReturns
    \/ AnalyzeSearchFails
    \/ AnalyzeLlmReturns
    \/ AnalyzeLlmRaises

SpecAnalyze == AnalyzeInit /\ [][AnalyzeNext]_vars

(***************************************************************************)
(* LogAnalyzerAgent.process_log_file: the preprocessor's process_log_file, *)
(* add_logs_to_vectorstore, then analyze_log_entry for every error entry   *)
(* of every chunk.  The entries the preprocessor hands over all carry a    *)
(* 'message', so the KeyError of analyze_log_entry cannot occur here.      *)
(***************************************************************************)
RECURSIVE Words(_)
\* n words separated by single spaces
Words(n) ==
    IF n = 1 THEN "w" ELSE Words(n \div 2) \o " " \o Words(n - (n \div 2))

AgentLinePool ==
    {"2024-01-01 00:00:00 ERROR [svc] boom",
     "2024-13-01 25:00:00 FATAL [db] disk full",
     "2024-01-01 00:00:07 INFO [svc] started ok",
     "2024-01-01 00:00:09 CRITICAL [api] " \o Words(260)}

AgentContents == {JoinLines(q) : q \in SeqsUpTo(AgentLinePool, MaxFileLines)}

\* the file at file_path: readable with a content, missing, unreadable, or
\* not valid UTF-8
AgentFiles ==
    {[state |-> "ok", content |-> c] : c \in AgentContents}
        \cup {[state |-> st, content |-> ""] :
                 st \in {"missing", "unreadable", "undecodable"}}

AgentSearchHits == {<<Hit("2024-01-01 00:00:00 ERROR [svc] boom", 12)>>}

AgentLlmTexts == {CleanJson}

AgentInit ==
    /\ ParseIdle
    /\ ChunkIdle
    /\ PatternIdle
    /\ a_entry = <<>>
    /\ error_message = JNull
    /\ similar_logs = <<>>
    /\ search_raised = FALSE
    /\ response = NoResponse
    /\ a_result = NoResult
    /\ a_pc = "idle"
    /\ calls = <<>>
    /\ search_hits = AgentSearchHits
    /\ llm_texts = AgentLlmTexts
    /\ file \in AgentFiles
    /\ g_chunks = <<>>
    /\ g_patterns = NoPatterns
    /\ added = 0
    /\ store_raised = FALSE
    /\ chunk_idx = 0
    /\ entry_idx = 0
    /\ results = <<>>
    /\ g_exception = ""
    /\ g_pc = "start"

\* read_log_file raises: FileNotFoundError, IOError, or the UnicodeDecodeError
\* of file.read(), which neither except clause catches
AgentReadFails ==
    /\ g_pc = "start"
    /\ file.state # "ok"
    /\ g_exception' = (CASE file.state = "missing"     -> "FileNotFoundError"
                         [] file.state = "unreadable"  -> "IOError"
                         [] file.state = "undecodable" -> "UnicodeDecodeError")
    /\ g_pc' = "raised"
    /\ UNCHANGED <<file, g_chunks, g_patterns, added, store_raised, chunk_idx,
                   entry_idx, results>>
    /\ UNCHANGED <<parseVars, chunkVars, patternVars, analyzeVars>>

AgentPreprocess_SkipStore ==
    /\ g_pc = "start"
    /\ file.state = "ok"
    /\ ~PreprocessRaises(file.content)
    /\ g_chunks' = PreprocessChunks(file.content)
    /\ g_patterns' = PreprocessPatterns(file.content)
    /\ chunk_idx' = 1
    /\ entry_idx' = 1
    /\ g_pc' = "loop"
    /\ UNCHANGED <<file, added, store_raised, results, g_exception>>
    /\ UNCHANGED <<parseVars, chunkVars, patternVars, analyzeVars>>

\* chunks, patterns = self.preprocessor.process_log_file(file_path)
AgentPreprocess ==
    /\ g_pc = "start"
    /\ file.state = "ok"
    /\ ~PreprocessRaises(file.content)
    /\ g_chunks' = PreprocessChunks(file.content)
    /\ g_patterns' = PreprocessPatterns(file.content)
    /\ g_pc' = "store"
    /\ UNCHANGED <<file, added, store_raised, chunk_idx, entry_idx, results, g_exception>>
    /\ UNCHANGED <<parseVars, chunkVars, patternVars, analyzeVars>>

\* the preprocessor's process_log_file raises the ValueError of
\* extract_error_patterns, and process_log_file has no except
AgentPreprocessRaises ==
    /\ g_pc = "start"
    /\ file.state = "ok"
    /\ PreprocessRaises(file.content)
    /\ g_exception' = "ValueError"
    /\ g_pc' = "raised"
    /\ UNCHANGED <<file, g_chunks, g_patterns, added, store_raised, chunk_idx,
                   entry_idx, results>>
    /\ UNCHANGED <<parseVars, chunkVars, patternVars, analyzeVars>>

\* add_logs_to_vectorstore: add_texts and persist return
AgentStoreAdded ==
    /\ g_pc = "store"
    /\ calls' = calls \o <<"add_texts", "persist">>
    /\ added' = Len(g_chunks)
    /\ store_raised' = FALSE
    /\ chunk_idx' = 1
    /\ entry_idx' = 1
    /\ g_pc' = "loop"
    /\ UNCHANGED <<file, g_chunks, g_patterns, results, g_exception>>
    /\ UNCHANGED <<a_entry, error_message, similar_logs, search_raised, response,
                   a_result, a_pc, search_hits, llm_texts>>
    /\ UNCHANGED <<parseVars, chunkVars, patternVars>>

AgentStoreFails_Propagates ==
    /\ g_pc = "store"
    /\ calls' = Append(calls, "add_texts")
    /\ store_raised' = TRUE
    /\ g_exception' = "RuntimeError"
    /\ g_pc' = "raised"
    /\ UNCHANGED <<file, g_chunks, g_patterns, added, chunk_idx, entry_idx, results>>
    /\ UNCHANGED <<a_entry, error_message, similar_logs, search_raised, response,
                   a_result, a_pc, search_hits, llm_texts>>
    /\ UNCHANGED <<parseVars, chunkVars, patternVars>>

\* add_logs_to_vectorstore: add_texts or persist raises, the except returns 0
AgentStoreFails ==
    /\ g_pc = "store"
    /\ \E failing \in {"add_texts", "persist"} :
          calls' = calls \o (IF failing = "add_texts" THEN <<"add_texts">>
                             ELSE <<"add_texts", "persist">>)
    /\ added' = 0
    /\ store_raised' = TRUE
    /\ chunk_idx' = 1
    /\ entry_idx' = 1
    /\ g_pc' = "loop"
    /\ UNCHANGED <<file, g_chunks, g_patterns, results, g_exception>>
    /\ UNCHANGED <<a_entry, error_message, similar_logs, search_raised, response,
                   a_result, a_pc, search_hits, llm_texts>>
    /\ UNCHANGED <<parseVars, chunkVars, patternVars>>

InChunks == chunk_idx <= Len(g_chunks)

ChunkEntries == g_chunks[chunk_idx].entries

\* the next entry of the chunk: analyze_log_entry(entry) is called if
\* entry['is_error'], else the loop moves on
AgentNextEntry ==
    /\ g_pc = "loop"
    /\ InChunks /\ entry_idx <= Len(ChunkEntries)
    /\ IF ChunkEntries[entry_idx].is_error
       THEN /\ AnalyzeStart(ChunkEntries[entry_idx])
            /\ g_pc' = "analyze"
            /\ UNCHANGED entry_idx
       ELSE /\ entry_idx' = entry_idx + 1
            /\ UNCHANGED <<a_entry, error_message, similar_logs, search_raised,
                           response, a_result, a_pc, g_pc>>
    /\ UNCHANGED <<file, g_chunks, g_patterns, added, store_raised, chunk_idx,
                   results, g_exception>>
    /\ UNCHANGED <<calls, search_hits, llm_texts>>
    /\ UNCHANGED <<parseVars, chunkVars, patternVars>>

\* results.append(result)
AgentCollect ==
    /\ g_pc = "analyze"
    /\ a_pc = "done"
    /\ results' = Append(results, a_result)
    /\ entry_idx' = entry_idx + 1
    /\ a_pc' = "idle"
    /\ g_pc' = "loop"
    /\ UNCHANGED <<file, g_chunks, g_patterns, added, store_raised, chunk_idx, g_exception>>
    /\ UNCHANGED <<a_entry, error_message, similar_logs, search_raised, response,
                   a_result, calls, search_hits, llm_texts>>
    /\ UNCHANGED <<parseVars, chunkVars, patternVars>>

\* the entries of the chunk are exhausted: the next chunk
AgentNextChunk ==
    /\ g_pc = "loop"
    /\ InChunks /\ entry_idx > Len(ChunkEntries)
    /\ chunk_idx' = chunk_idx + 1
    /\ entry_idx' = 1
    /\ UNCHANGED <<file, g_chunks, g_patterns, added, store_raised, results,
                   g_exception, g_pc>>
    /\ UNCHANGED <<parseVars, chunkVars, patternVars, analyzeVars>>

\* return results
AgentReturn ==
    /\ g_pc = "loop"
    /\ ~InChunks
    /\ g_pc' = "done"
    /\ UNCHANGED <<file, g_chunks, g_patterns, added, store_raised, chunk_idx, entry_idx, results,
                   g_exception>>
    /\ UNCHANGED <<parseVars, chunkVars, patternVars, analyzeVars>>

AgentNext ==
    \/ AgentReadFails
    \/ AgentPreprocess
    \/ AgentPreprocessRaises
    \/ AgentStoreAdded
    \/ AgentStoreFails
    \/ AgentNextEntry
    \/ AnalyzeReadMessage
    \/ AnalyzeSearchReturns
    \/ AnalyzeSearchFails
    \/ AnalyzeLlmReturns
    \/ AnalyzeLlmRaises
    \/ AgentCollect
    \/ AgentNextChunk
    \/ AgentReturn

SpecAgent == AgentInit /\ [][AgentNext]_vars

(***************************************************************************)
(* Properties of create_chunks.                                            *)
(***************************************************************************)
RECURSIVE ConcatEntries(_)
ConcatEntries(chs) ==
    IF chs = <<>> THEN <<>> ELSE Head(chs).entries \o ConcatEntries(Tail(chs))

RECURSIVE SumTokens(_)
SumTokens(es) ==
    IF es = <<>> THEN 0 ELSE EntryTokens(Head(es)) + SumTokens(Tail(es))

Oversized(e) == EntryTokens(e) > max_tokens

\* C1: the entries lists of the returned chunks, concatenated in chunk order,
\* are exactly the input entry sequence (same entries, same order, none
\* dropped or duplicated, oversized entries included); while the loop runs the
\* closed chunks followed by the current group are the entries consumed so far.
C1_NoEntryLoss ==
    /\ c_pc = "loop" =>
          ConcatEntries(chunks) \o current_chunk = SubSeq(c_entries, 1, c_idx - 1)
    /\ c_pc = "done" => ConcatEntries(chunks) = c_entries

\* a finished run with several chunks, one of them a single oversized entry
C1_Witness ==
    /\ c_pc = "done"
    /\ Len(chunks) >= 2
    /\ \E i \in 1..Len(chunks) :
          Len(chunks[i].entries) = 1 /\ Oversized(chunks[i].entries[1])

\* C2: every chunk has token_count <= max_tokens unless it consists of exactly
\* one entry whose own token cost exceeds max_tokens; no chunk of two or more
\* entries exceeds max_tokens.
C2_TokenBound ==
    \A i \in 1..Len(chunks) :
        \/ chunks[i].token_count <= max_tokens
        \/ Len(chunks[i].entries) = 1 /\ Oversized(chunks[i].entries[1])

\* a finished run holding a chunk of two entries filled exactly to max_tokens
\* and a chunk made of one oversized entry
C2_Witness ==
    /\ c_pc = "done"
    /\ \E i \in 1..Len(chunks) :
          Len(chunks[i].entries) >= 2 /\ chunks[i].token_count = max_tokens
    /\ \E i \in 1..Len(chunks) :
          Len(chunks[i].entries) = 1 /\ chunks[i].token_count > max_tokens

\* C3: token_count of every chunk, closed in the loop or flushed at the end,
\* is the sum of the separately computed token costs of its entries.
C3_TokenCountIsSum ==
    \A i \in 1..Len(chunks) :
        chunks[i].token_count = SumTokens(chunks[i].entries)

\* a finished run with a chunk closed in the loop and a flushed last chunk,
\* one of them with two entries
C3_Witness ==
    /\ c_pc = "done"
    /\ Len(chunks) >= 2
    /\ \E i \in 1..Len(chunks) : Len(chunks[i].entries) >= 2

(***************************************************************************)
(* Properties of parse_log_entries.                                        *)
(***************************************************************************)
LastEntry(es) == es[Len(es)]

\* the physical lines of the raw text, and how many of them strip() removed
\* from its head
RawLines == SplitLines(log_content)

LeadingDropped == Len(RawLines) - Len(SplitLines(LStrip(log_content)))

\* the physical line the loop has just processed
ProcessedLine == RawLines[line_num - 1 + LeadingDropped]

\* the loop is at a continuation line: non-blank, no header, an entry exists
AtContinuation ==
    /\ p_pc = "loop" /\ line_num <= Len(lines)
    /\ ~IsBlank(CurrentLine) /\ ~IsHeader(CurrentLine)
    /\ entries # <<>>

\* C8: a non-blank line that does not match the header grammar and follows a
\* parsed entry creates no entry; it appends one space plus the trimmed line
\* to message and to full_line of the current last entry, so consecutive
\* continuation lines accumulate in order; "boom" followed by "extra detail"
\* gives exactly one entry with message "boom extra detail".
C8_ContinuationAppends ==
    /\ [][AtContinuation =>
            /\ Len(entries') = Len(entries)
            /\ LastEntry(entries').message =
                   LastEntry(entries).message \o " " \o Strip(CurrentLine)
            /\ LastEntry(entries').full_line =
                   LastEntry(entries).full_line \o " " \o Strip(CurrentLine)]_vars
    /\ [](p_pc = "done"
            /\ log_content = "2024-01-01 00:00:00 ERROR [svc] boom\nextra detail"
          => Len(entries) = 1 /\ entries[1].message = "boom extra detail")

\* two continuation lines merged, in order, into the one entry
C8_Witness ==
    /\ p_pc = "done"
    /\ log_content =
          "2024-01-01 00:00:00 ERROR [svc] boom\nextra detail\n  at line 5 "
    /\ Len(entries) = 1
    /\ entries[1].message = "boom extra detail at line 5"
    /\ entries[1].full_line =
          "2024-01-01 00:00:00 ERROR [svc] boom extra detail at line 5"

\* the loop has just built an entry from a header line; nothing is merged yet
JustParsed ==
    /\ p_pc = "loop" /\ line_num > 1
    /\ entries # <<>>
    /\ LastEntry(entries).line_number = line_num - 1

\* C9 as stated: the entry of a header line "<ts> <LEVEL> [<comp>] <msg>" has,
\* before any merge, full_line equal to the line verbatim and timestamp_str,
\* component and message equal to the parts of the line.
C9_RoundTripVerbatim ==
    \A p \in HeaderPartsPool :
        JustParsed /\ ProcessedLine = HeaderLine(p) =>
            /\ LastEntry(entries).full_line = ProcessedLine
            /\ LastEntry(entries).timestamp_str = p.ts
            /\ LastEntry(entries).component = p.comp
            /\ LastEntry(entries).message = p.msg

\* C9 amended: full_line is the line with its leading and trailing whitespace
\* removed, timestamp_str and component are the parts of the line, and
\* message is <msg> with its leading and trailing whitespace removed.
C9_RoundTripTrimmed ==
    \A p \in HeaderPartsPool :
        JustParsed /\ ProcessedLine = HeaderLine(p) =>
            /\ LastEntry(entries).full_line = Strip(ProcessedLine)
            /\ LastEntry(entries).timestamp_str = p.ts
            /\ LastEntry(entries).component = p.comp
            /\ LastEntry(entries).message = Strip(p.msg)

\* an entry just built from a header line whose <msg> ends with a space
C9_Witness ==
    /\ JustParsed
    /\ \E p \in HeaderPartsPool :
          /\ ProcessedLine = HeaderLine(p)
          /\ Strip(p.msg) # p.msg
          /\ LastEntry(entries).message = Strip(p.msg)
          /\ LastEntry(entries).full_line # ProcessedLine

(***************************************************************************)
(* Properties of extract_error_patterns.                                   *)
(***************************************************************************)
KeywordSet == {Keywords[k] : k \in 1..Len(Keywords)}

\* the error entries of the argument whose lower-cased message contains kw
MessagesWith(kw) ==
    {i \in 1..Len(x_entries) :
        x_entries[i].is_error /\ Contains(Lower(x_entries[i].message), kw)}

\* C10: once the keyword loop has run, error_keywords maps every keyword of
\* the vocabulary to the number of error entries whose lower-cased message
\* contains it (once per message, each keyword on its own), keywords matched
\* by no error message are absent, and the returned dict carries that mapping.
C10_KeywordCounts ==
    /\ x_pc \in {"done", "raised"} =>
          /\ DOMAIN error_keywords \subseteq KeywordSet
          /\ \A kw \in KeywordSet :
                IF MessagesWith(kw) = {} THEN kw \notin DOMAIN error_keywords
                ELSE /\ kw \in DOMAIN error_keywords
                     /\ error_keywords[kw] = Cardinality(MessagesWith(kw))
    /\ x_pc = "done" => patterns.error_keywords = error_keywords

\* a returned mapping from a message with four keywords, a message with the
\* same keyword twice, and a non-error message whose keyword is not counted
C10_Witness ==
    /\ x_pc = "done"
    /\ Len(x_entries) = 3 /\ Len(error_entries) = 2
    /\ DOMAIN patterns.error_keywords =
          {"timeout", "connection", "unauthorized", "denied"}
    /\ patterns.error_keywords["timeout"] = 2
    /\ patterns.error_keywords["connection"] = 1

(***************************************************************************)
(* The analysis record: claims C4 to C7.                                   *)
(***************************************************************************)
Severities == {"LOW", "MEDIUM", "HIGH", "CRITICAL"}

IsSeverity(val) == val.t = "str" /\ val.v \in Severities

\* a number of [0.0, 1.0], in hundredths
IsConfidence(val) == val.t \in {"int", "float"} /\ val.v >= 0 /\ val.v <= 100

IsNonEmptyList(val) == val.t = "arr" /\ val.v # <<>>

\* the model answered with a text and analyze_log_entry has returned
AnsweredText == a_pc = "done" /\ ~response.raised

StartsWith(s, prefix) == StartsWithAt(s, 1, prefix)

EndsWith(s, suffix) ==
    Len(s) >= Len(suffix) /\ SubSeq(s, Len(s) - Len(suffix) + 1, Len(s)) = suffix

\* a text without its surrounding whitespace and fenced-block wrapper
Unfenced(text) ==
    LET t1 == Strip(text)
        t2 == IF StartsWith(t1, Fence \o "json") THEN SubSeq(t1, Len(Fence) + 5, Len(t1))
              ELSE IF StartsWith(t1, Fence) THEN SubSeq(t1, Len(Fence) + 1, Len(t1))
              ELSE t1
        t3 == IF EndsWith(t2, Fence) THEN SubSeq(t2, 1, Len(t2) - Len(Fence)) ELSE t2
    IN  Strip(t3)

\* the text is no structured record, with or without a fenced wrapper
Unparsable(text) == ~JsonLoads(text).ok /\ ~JsonLoads(Unfenced(text)).ok

\* the first n characters of a text
Prefix(text, n) == SubSeq(text, 1, IF Len(text) < n THEN Len(text) ELSE n)

\* C4: whatever text the model returns, the analysis record built from it
\* has a severity among LOW, MEDIUM, HIGH, CRITICAL, a confidence_score in
\* [0.0, 1.0], and non-empty possible_causes and recommendations lists.
C4_SanitizedRecord ==
    AnsweredText =>
        /\ IsSeverity(a_result.severity)
        /\ IsConfidence(a_result.confidence_score)
        /\ IsNonEmptyList(a_result.possible_causes)
        /\ IsNonEmptyList(a_result.recommendations)

\* C5: when the model's text cannot be parsed as a structured record, the
\* analysis record is the malformed-input fallback: severity MEDIUM,
\* confidence_score 0.1, and a raw_response field holding the first 500
\* characters of the text.
C5_MalformedFallback ==
    (AnsweredText /\ Unparsable(response.content)) =>
        /\ a_result.severity = JStr("MEDIUM")
        /\ a_result.confidence_score = JFloat(10)
        /\ IsNonEmptyList(a_result.possible_causes)
        /\ IsNonEmptyList(a_result.recommendations)
        /\ "raw_response" \in DOMAIN a_result
        /\ a_result.raw_response = JStr(Prefix(response.content, 500))

\* an exception was raised by the similarity search or by the model call
\* while the entry was analyzed
ExceptionDuringAnalysis == search_raised \/ response.raised

\* C6: analyze_log_entry never raises to its caller, whatever the entry
\* (message missing or None included), and an exception raised by the
\* similarity search or the model call ends in an AnalysisResult with
\* severity HIGH and confidence_score 0.0.
C6_NeverRaises ==
    /\ a_pc # "raised"
    /\ (a_pc = "done" /\ ExceptionDuringAnalysis) =>
          /\ a_result.severity.t = "str" /\ a_result.severity.v = "HIGH"
          /\ a_result.confidence_score.t \in {"int", "float"}
          /\ a_result.confidence_score.v = 0

\* the error entries of the file, in the order of the file
FileErrorEntries == FilterErrorEntries(ParseLogEntries(file.content))

\* results holds one AnalysisResult per error entry of the file, in order
OneResultPerErrorEntry ==
    /\ Len(results) = Len(FileErrorEntries)
    /\ \A i \in 1..Len(results) :
          results[i].error_message = JStr(FileErrorEntries[i].message)

\* C7: for a file that was read, the agent's process_log_file returns, and
\* returns exactly one AnalysisResult per error entry of the file, in the
\* order of the file, whichever similarity searches and model calls failed.
C7_OneResultPerErrorEntry ==
    file.state = "ok" =>
        /\ g_pc # "raised"
        /\ g_pc = "done" => OneResultPerErrorEntry

(***************************************************************************)
(* Claims C11 to C20.                                                      *)
(***************************************************************************)
\* C11: extract_error_patterns returns for every entry sequence, and when
\* no error entry has a parsed timestamp the returned time_range is None.
C11_TimeRangeAbsent ==
    /\ x_pc # "raised"
    /\ (x_pc = "done" /\ PresentTimestamps(error_entries) = {}) =>
          patterns.time_range = NoTimeRange

\* the file could not be read and process_log_file has taken its first step
ReadFailed == file.state # "ok" /\ g_pc # "start"

\* nothing was returned and neither the store nor the model was called
AbortedBeforeAnyCall ==
    /\ g_pc = "raised"
    /\ g_chunks = <<>> /\ results = <<>>
    /\ calls = <<>>

\* C12: a failed read aborts process_log_file with a file-not-found signal
\* for a missing file and an I/O-error signal for any other read failure,
\* with nothing returned and no store write, similarity search or model call.
C12_ReadFailureSignals ==
    ReadFailed =>
        /\ AbortedBeforeAnyCall
        /\ g_exception = (IF file.state = "missing" THEN "FileNotFoundError"
                          ELSE "IOError")

AnalysisFields ==
    {"explanation", "possible_causes", "severity", "recommendations",
     "confidence_score"}

\* a parsed record with all five fields present and valid
WellFormed(val) ==
    /\ val.t = "obj"
    /\ AnalysisFields \subseteq DOMAIN val.v
    /\ val.v.explanation.t = "str"
    /\ IsNonEmptyList(val.v.possible_causes)
    /\ IsSeverity(val.v.severity)
    /\ IsNonEmptyList(val.v.recommendations)
    /\ IsConfidence(val.v.confidence_score)

\* the model answered with the text of a well-formed record
AnsweredWellFormed ==
    /\ AnsweredText
    /\ JsonLoads(response.content).ok
    /\ WellFormed(JsonLoads(response.content).val)

\* C13: when the model returns a well-formed record with all five fields
\* present and valid, every field of the analysis record is the value the
\* record carries for it, and no fallback value replaces any of them.
C13_CleanMapping ==
    AnsweredWellFormed =>
        \A k \in AnalysisFields :
            a_result[k] = JsonLoads(response.content).val.v[k]

\* the well-formed answer of the pool, mapped field by field
C13_Witness ==
    /\ a_pc = "done"
    /\ response = LlmReturns(CleanJson)
    /\ a_result.explanation = JStr("disk is full")
    /\ a_result.possible_causes = JArr(<<JStr("log growth"), JStr("no rotation")>>)
    /\ a_result.severity = JStr("HIGH")
    /\ a_result.recommendations = JArr(<<JStr("free space")>>)
    /\ a_result.confidence_score = JFloat(85)

\* C14: within one create_chunks call the i-th chunk emitted, counting from
\* 0, has chunk_id i, whether it was closed in the loop or flushed at the
\* end, so the ids are 0..n-1 without gap or repeat.
C14_SequentialChunkIds ==
    \A i \in 1..Len(chunks) : chunks[i].chunk_id = i - 1

\* a finished run of three chunks, two closed in the loop and the last one
\* flushed after it
C14_Witness ==
    /\ c_pc = "done"
    /\ Len(chunks) = 3
    /\ chunks[1].chunk_id = 0
    /\ chunks[2].chunk_id = 1
    /\ chunks[3].chunk_id = 2

\* the header match of the line an entry was built from
HeaderOf(entry) == LogPatternMatch(Strip(lines[entry.line_number]))

\* C15: every entry's level is the upper-cased level token of its header
\* and is_error holds exactly when that level is ERROR, CRITICAL or FATAL;
\* merging a continuation line changes neither level nor is_error.
C15_LevelAndIsError ==
    /\ [](\A i \in 1..Len(entries) :
            /\ HeaderOf(entries[i]).matched
            /\ entries[i].level = Upper(HeaderOf(entries[i]).level)
            /\ entries[i].is_error <=>
                   entries[i].level \in {"ERROR", "CRITICAL", "FATAL"})
    /\ [][AtContinuation =>
            /\ LastEntry(entries').level = LastEntry(entries).level
            /\ LastEntry(entries').is_error = LastEntry(entries).is_error]_vars

\* a lower-case error header with a merged continuation line is an error of
\* level ERROR, and the WARN header after it is not an error
C15_Witness ==
    /\ p_pc = "done"
    /\ Len(entries) = 2
    /\ HeaderOf(entries[1]).level = "error"
    /\ entries[1].level = "ERROR" /\ entries[1].is_error
    /\ entries[1].message = "Connection timeout extra detail"
    /\ entries[2].level = "WARN" /\ ~entries[2].is_error

\* C16: the entries are in strictly increasing line_number order and each
\* of them, the first included, was built from a line that matches the
\* header pattern: a non-matching line never becomes an entry.
C16_IncreasingHeaderLines ==
    /\ \A i \in 1..Len(entries) :
          /\ entries[i].line_number \in 1..Len(lines)
          /\ IsHeader(lines[entries[i].line_number])
    /\ \A i \in 1..Len(entries) : \A j \in (i + 1)..Len(entries) :
          entries[i].line_number < entries[j].line_number

\* a non-matching first line was dropped and the two headers after it are
\* the entries of lines 2 and 3
C16_Witness ==
    /\ p_pc = "done"
    /\ ~IsBlank(lines[1]) /\ ~IsHeader(lines[1])
    /\ Len(entries) = 2
    /\ entries[1].line_number = 2
    /\ entries[2].line_number = 3

StoreCalls == {"add_texts", "persist"}

\* add_logs_to_vectorstore has returned to process_log_file
StoreReturned == g_pc \in {"loop", "analyze", "done"}

\* C17: in process_log_file the ingestion of the file's chunks into the
\* vector store is invoked and has returned before the first similarity
\* search is issued, and no search of the run precedes a store write.
C17_IngestionBeforeSearch ==
    \A k \in 1..Len(calls) :
        calls[k] = "similarity_search" =>
            /\ StoreReturned
            /\ calls[1] = "add_texts"
            /\ ~store_raised => calls[2] = "persist"
            /\ \A j \in k..Len(calls) : calls[j] \notin StoreCalls

\* a finished run of two error entries after a successful ingestion
C17_Witness ==
    /\ g_pc = "done"
    /\ ~store_raised
    /\ calls = <<"add_texts", "persist", "similarity_search", "llm",
                 "similarity_search", "llm">>

\* C18: add_logs_to_vectorstore returns 0 when add_texts or persist raises
\* and the number of chunks otherwise; the failure never leaves
\* process_log_file, which still analyzes every error entry of the file.
C18_StoreFailureAbsorbed ==
    /\ StoreReturned => added = (IF store_raised THEN 0 ELSE Len(g_chunks))
    /\ store_raised => StoreReturned
    /\ (store_raised /\ g_pc = "done") => OneResultPerErrorEntry

\* a finished run whose store write failed: two chunks, nothing added, and
\* both error entries analyzed
C18_Witness ==
    /\ g_pc = "done"
    /\ store_raised
    /\ Len(g_chunks) = 2 /\ added = 0
    /\ Len(results) = 2

\* the preprocessor's process_log_file has finished on a file that was read
Preprocessed == file.state = "ok" /\ g_pc # "start"

\* C19: every chunk has a non-empty entries sequence, the chunk list is
\* empty exactly when the entry sequence given to create_chunks is empty,
\* and processing a log with at least one error entry yields at least one
\* chunk and total_errors >= 1.
C19_NonEmptyChunks ==
    /\ \A i \in 1..Len(g_chunks) : g_chunks[i].entries # <<>>
    /\ (Preprocessed /\ g_pc # "raised") =>
          (g_chunks = <<>> <=> FileErrorEntries = <<>>)
    /\ (Preprocessed /\ FileErrorEntries # <<>>) =>
          /\ g_pc # "raised"
          /\ Len(g_chunks) >= 1
          /\ g_patterns.total_errors >= 1


\* the entry the loop of create_chunks is about to handle
InLoop == c_pc = "loop" /\ c_idx <= Len(c_entries)

\* a chunk was appended to the list by this loop iteration
ClosedBeforeEntry == InLoop /\ c_pc' = "loop" /\ Len(chunks') > Len(chunks)

\* the entry fills the current non-empty group exactly
FitsExactly ==
    /\ InLoop
    /\ current_chunk # <<>>
    /\ current_tokens + EntryTokens(c_entries[c_idx]) = max_tokens

\* the group that follows chunks[i]: the next chunk, or the open group
GroupAfter(i) == IF i < Len(chunks) THEN chunks[i + 1].entries ELSE current_chunk

\* C20: chunking is greedy and maximal. A chunk is closed before an entry
\* only when the group is non-empty and running total + entry cost exceeds
\* max_tokens; an entry that fits exactly stays in the current group; and
\* the token_count of every chunk plus the cost of the first entry of the
\* group after it is strictly greater than max_tokens.
C20_GreedyMaximal ==
    /\ [](\A i \in 1..Len(chunks) :
             (c_pc = "done" => i < Len(chunks)) /\ GroupAfter(i) # <<>> =>
                chunks[i].token_count + EntryTokens(GroupAfter(i)[1]) > max_tokens)
    /\ [][ClosedBeforeEntry =>
             /\ current_chunk # <<>>
             /\ current_tokens + EntryTokens(c_entries[c_idx]) > max_tokens]_vars
    /\ [][FitsExactly =>
             /\ chunks' = chunks
             /\ current_chunk' = Append(current_chunk, c_entries[c_idx])]_vars

\* two entries fill the first chunk exactly and a third opens the next one
C20_Witness ==
    /\ c_pc = "done"
    /\ Len(chunks) = 2
    /\ Len(chunks[1].entries) = 2
    /\ chunks[1].token_count = max_tokens
    /\ chunks[1].token_count + EntryTokens(chunks[2].entries[1]) > max_tokens


(***************************************************************************)
(* Claims C21 to C30                                                       *)
(***************************************************************************)

\* the number of entries of a chunk that carry is_error
ErrorsIn(chunk) ==
    Cardinality({i \in 1..Len(chunk.entries) : chunk.entries[i].is_error})

\* a value is observed in a chunk when one of its entries holds it
Observed(chunk, field) ==
    {chunk.entries[i][field] : i \in 1..Len(chunk.entries)}

\* C21: in every chunk, error_count is the number of its entries with
\* is_error true, components is exactly the set of component values of its
\* entries and levels exactly the set of level values of its entries.
C21_ChunkSummaries ==
    \A i \in 1..Len(chunks) :
        /\ chunks[i].error_count = ErrorsIn(chunks[i])
        /\ \A c \in chunks[i].components :
              \E k \in 1..Len(chunks[i].entries) : chunks[i].entries[k].component = c
        /\ \A k \in 1..Len(chunks[i].entries) :
              chunks[i].entries[k].component \in chunks[i].components
        /\ chunks[i].levels = Observed(chunks[i], "level")

\* two chunks with different components, the first mixing an error entry
\* with a non-error entry
C21_Witness ==
    /\ c_pc = "done"
    /\ Len(chunks) = 2
    /\ Len(chunks[1].entries) = 2
    /\ chunks[1].error_count = 1
    /\ chunks[1].levels = {"ERROR", "INFO"}
    /\ chunks[1].components = {"svc"}
    /\ chunks[2].components = {"db"}


\* the positions of the non-blank lines of a text that match the header grammar
HeaderPositions(ls) ==
    {k \in 1..Len(ls) : ~IsBlank(ls[k]) /\ IsHeader(ls[k])}

\* the loop is at a blank line, or at a non-matching line with no entry yet
AtBlank == p_pc = "loop" /\ line_num <= Len(lines) /\ IsBlank(CurrentLine)

AtOrphan ==
    /\ p_pc = "loop" /\ line_num <= Len(lines)
    /\ ~IsBlank(CurrentLine) /\ ~IsHeader(CurrentLine)
    /\ entries = <<>>

\* the trimmed non-blank lines from position a to position b, joined by
\* single spaces
RECURSIVE Merged(_, _, _)
Merged(ls, a, b) ==
    IF a > b THEN ""
    ELSE IF IsBlank(ls[b]) THEN Merged(ls, a, b - 1)
    ELSE IF Merged(ls, a, b - 1) = "" THEN Strip(ls[b])
    ELSE Merged(ls, a, b - 1) \o " " \o Strip(ls[b])

\* the last line that belongs to entry i once the loop has passed it
LastLineOf(i) ==
    IF i < Len(entries) THEN entries[i + 1].line_number - 1 ELSE line_num - 1

\* C22: the number of entries equals the number of non-blank input lines
\* that match the header grammar; a blank line creates and modifies nothing;
\* a non-matching line before the first header creates no entry and is not
\* attached to any later entry (each entry is made of its header line and
\* the non-blank lines that follow it up to the next header).
C22_EntriesCountHeaders ==
    /\ [](Len(entries) = Cardinality(HeaderPositions(SubSeq(lines, 1, line_num - 1))))
    /\ [](p_pc = "done" => Len(entries) = Cardinality(HeaderPositions(RawLines)))
    /\ [](\A i \in 1..Len(entries) :
             entries[i].full_line = Merged(lines, entries[i].line_number, LastLineOf(i)))
    /\ [][AtBlank \/ AtOrphan => entries' = entries]_vars

\* a non-matching line, then a blank line, then a header: one entry, made of
\* the header line alone
C22_Witness ==
    /\ p_pc = "done"
    /\ Len(RawLines) = 3
    /\ ~IsBlank(RawLines[1]) /\ ~IsHeader(RawLines[1])
    /\ IsBlank(RawLines[2])
    /\ Len(entries) = 1
    /\ entries[1].full_line = Strip(RawLines[3])


\* C23: line_number of every entry is the 1-based position, within the raw
\* input text, of the physical line holding the entry's header, including
\* for texts that begin with blank or whitespace-only lines.
C23_RawLineNumber ==
    \A i \in 1..Len(entries) :
        LET n == entries[i].line_number IN
        /\ n \in 1..Len(RawLines)
        /\ ~IsBlank(RawLines[n])
        /\ IsHeader(RawLines[n])
        /\ i > 1 => entries[i - 1].line_number < n


\* the loop is at a line that matches the header grammar
AtHeader ==
    /\ p_pc = "loop" /\ line_num <= Len(lines)
    /\ ~IsBlank(CurrentLine) /\ IsHeader(CurrentLine)

\* the date-time text of a header is not a calendar date-time
BadDate(ts) == Strptime(ts) = NoTimestamp

\* C24: a header-shaped line whose date-time text is not a valid calendar
\* date-time still produces an entry, with timestamp absent and
\* timestamp_str holding the original text, and parsing goes on with the
\* next line; the parse never aborts.
C24_BadDateKeepsEntry ==
    /\ [](\A i \in 1..Len(entries) :
             /\ entries[i].timestamp_str = HeaderOf(entries[i]).timestamp_str
             /\ BadDate(HeaderOf(entries[i]).timestamp_str) <=>
                   entries[i].timestamp = NoTimestamp)
    /\ [][AtHeader =>
             /\ Len(entries') = Len(entries) + 1
             /\ SubSeq(entries', 1, Len(entries)) = entries]_vars
    /\ [][p_pc = "loop" /\ line_num <= Len(lines) =>
             line_num' = line_num + 1 /\ p_pc' = "loop"]_vars
    /\ [](p_pc \in {"loop", "done"})

\* month 13 and hour 25 on the first line, a valid header on the second
C24_Witness ==
    /\ p_pc = "done"
    /\ Len(entries) = 2
    /\ entries[1].timestamp_str = "2024-13-01 25:00:00"
    /\ entries[1].timestamp = NoTimestamp
    /\ entries[2].line_number = 2
    /\ entries[2].timestamp # NoTimestamp


\* C25: time_range has start equal to the earliest and end equal to the
\* latest timestamp among all entries passed to extract_error_patterns that
\* have a parsed timestamp, whether or not those entries are errors.
C25_TimeRangeOverAllEntries ==
    (x_pc = "done" /\ PresentTimestamps(x_entries) # {}) =>
        patterns.time_range =
            <<[start |-> MinTs(PresentTimestamps(x_entries)),
               end   |-> MaxTs(PresentTimestamps(x_entries))]>>


\* the model's text parsed as a key/value record and analyze_log_entry returned
ParsedRecord ==
    /\ AnsweredText
    /\ JsonLoads(response.content).ok
    /\ JsonLoads(response.content).val.t = "obj"

\* a list field of the result holds exactly one string
IsSingleString(val) == val.t = "arr" /\ Len(val.v) = 1 /\ val.v[1].t = "str"

\* the list field k of the result when the parsed record rec carries it as a
\* string, or does not carry it
WrappedOrDefault(rec, k) ==
    /\ (k \in DOMAIN rec /\ rec[k].t = "str") =>
          a_result[k].t = "arr" /\ a_result[k].v = <<rec[k]>>
    /\ k \notin DOMAIN rec => IsSingleString(a_result[k])

\* C26: when the parsed record carries possible_causes (or recommendations)
\* as a scalar, the analysis record holds a single-element sequence with
\* that value as a string; when the field is absent it holds a one-element
\* sequence with the default message; the other fields keep their values.
C26_ScalarWrapped ==
    ParsedRecord =>
        LET rec == JsonLoads(response.content).val.v IN
        /\ WrappedOrDefault(rec, "possible_causes")
        /\ WrappedOrDefault(rec, "recommendations")
        /\ \A k \in {"explanation", "severity", "confidence_score"} \cap DOMAIN rec :
              a_result[k] = rec[k]


\* the three ways the handling of a model text ends
StructuralFailure == AnsweredText /\ ~JsonLoads(response.content).ok

FailureAfterParse ==
    /\ AnsweredText
    /\ JsonLoads(response.content).ok
    /\ JsonLoads(response.content).val.t # "obj"

HasConfidence(hundredths) ==
    /\ a_result.confidence_score.t \in {"int", "float"}
    /\ a_result.confidence_score.v = hundredths

\* C27: handling a model response ends in one of three outcomes and the two
\* fallbacks are distinguishable: a structural parse failure yields the
\* malformed-input fallback (MEDIUM, confidence 0.1), an exception raised
\* after a successful parse yields the internal-error fallback (MEDIUM,
\* confidence 0.0); neither propagates an exception.
C27_TwoFallbacks ==
    /\ StructuralFailure =>
          a_result.severity = JStr("MEDIUM") /\ HasConfidence(10)
    /\ FailureAfterParse =>
          a_result.severity = JStr("MEDIUM") /\ HasConfidence(0)
    /\ (a_pc = "raised") => response = NoResponse


\* the model answered a fenced block whose content is a structured record
FencedRecord ==
    /\ AnsweredText
    /\ StartsWith(Strip(response.content), Fence \o "json")
    /\ EndsWith(Strip(response.content), Fence)
    /\ JsonLoads(Unfenced(response.content)).ok
    /\ JsonLoads(Unfenced(response.content)).val.t = "obj"

\* C28: a valid structured record wrapped in a fenced code block is
\* unwrapped before parsing and yields the same analysis record as the
\* unwrapped record would; it does not trigger a fallback.
C28_FenceUnwrapped ==
    FencedRecord =>
        a_result = MakeResult(error_message, similar_logs,
                       AnalyzeErrorWithLlm(LlmReturns(Unfenced(response.content))))


\* the external calls made by the analysis of entries, in order
IsAnalysisCall(c) == c \notin StoreCalls

AnalysisCalls == SelectSeq(calls, IsAnalysisCall)

\* the calls the entry under analysis has made and seen return
CallsOfCurrentEntry ==
    IF g_pc # "analyze" THEN 0
    ELSE IF a_pc = "llm" THEN 1
    ELSE IF a_pc = "done" THEN 2
    ELSE 0

\* the analysis of an entry begins
EntryStarts == a_pc # "start" /\ a_pc' = "start"

\* C29: for every analyzed error entry the similarity search and the
\* generation call are each invoked exactly once, the search returns (with
\* its result or with a failure absorbed as an empty list) before the
\* generation call is issued, and the analysis of the next entry issues no
\* call until both calls of the entry before it have returned.
C29_TwoCallsPerEntry ==
    /\ [](/\ Len(AnalysisCalls) = 2 * Len(results) + CallsOfCurrentEntry
          /\ \A k \in 1..Len(AnalysisCalls) :
                AnalysisCalls[k] = (IF k % 2 = 1 THEN "similarity_search" ELSE "llm"))
    /\ [][(calls' # calls /\ calls'[Len(calls')] = "llm") =>
             /\ a_pc = "llm"
             /\ calls # <<>> /\ calls[Len(calls)] = "similarity_search"
             /\ (search_raised => similar_logs = <<>>)]_vars
    /\ [][EntryStarts =>
             /\ Len(AnalysisCalls) = 2 * Len(results)
             /\ calls' = calls]_vars

\* two entries analyzed, the search of the second one having failed
C29_Witness ==
    /\ g_pc = "done"
    /\ Len(results) = 2
    /\ search_raised
    /\ results[2].similar_logs = <<>>
    /\ AnalysisCalls = <<"similarity_search", "llm", "similarity_search", "llm">>


\* the fields of an entry a continuation line leaves as they are
FrozenFields ==
    {"line_number", "timestamp", "timestamp_str", "level", "component", "is_error"}

\* C30: processing a continuation line changes only message and full_line of
\* the current last entry: the number of entries, every field of every
\* earlier entry and the last entry's line_number, timestamp, timestamp_str,
\* level, component and is_error are unchanged; and at every point full_line
\* of each entry ends with that entry's message.
C30_ContinuationFrame ==
    /\ [][AtContinuation =>
             /\ Len(entries') = Len(entries)
             /\ \A i \in 1..(Len(entries) - 1) : entries'[i] = entries[i]
             /\ \A f \in FrozenFields :
                   LastEntry(entries')[f] = LastEntry(entries)[f]
             /\ LastEntry(entries').message # LastEntry(entries).message
             /\ LastEntry(entries').full_line # LastEntry(entries).full_line]_vars
    /\ [](\A i \in 1..Len(entries) :
             EndsWith(entries[i].full_line, entries[i].message))

\* two entries, the second one extended by a continuation line
C30_Witness ==
    /\ p_pc = "done"
    /\ Len(lines) = 3
    /\ Len(entries) = 2
    /\ entries[1].full_line = Strip(lines[1])
    /\ entries[2].line_number = 2
    /\ entries[2].full_line = Strip(lines[2]) \o " " \o Strip(lines[3])
    /\ EndsWith(entries[2].message, " " \o Strip(lines[3]))

=============================================================================
